---- MODULE Spec2Model ----
(***************************************************************************)
(* Document content-generation and chat-editing pipeline of the funding-  *)
(* application backend (backend/app/routers/documents.py).                 *)
(*                                                                         *)
(* One document row is modelled: its content_json sections, chat_history,  *)
(* headings_confirmed flag and funding_program_id.  Every route handler is *)
(* one action, parametrised by its request and by the answers of its       *)
(* collaborators (text-generation service, template store).  The caller is *)
(* the authenticated owner of the document and the OpenAI key is set.      *)
(***************************************************************************)
EXTENDS Integers, Sequences, FiniteSets, TLC

(***************************************************************************)
(* Bounds of the model.                                                    *)
(***************************************************************************)
MaxSections == 2        \* sections in a request body
MaxChanges == 2         \* changes a parser returns for one chat message
MaxHistory == 3         \* stored chat messages beyond which no chat turn starts
MaxRetries == 2         \* largest max_retries tried on _generate_batch_content

(***************************************************************************)
(* Value domains.                                                          *)
(***************************************************************************)
Ids == {"1", "4.1"}
Titles == {"Intro", "Team"}
Contents == {"", "x", "y"}
NoType == "<absent>"                     \* the section dict has no "type" key
Types == {"text", "milestone_table", NoType}

SeqsUpTo(S, n) == UNION {[1..k -> S] : k \in 0..n}

Max(S) == CHOOSE m \in S : \A n \in S : n <= m
Min(S) == CHOOSE m \in S : \A n \in S : m <= n

IdsOf(sections) == {sections[k].id : k \in DOMAIN sections}

IdTitles(sections) == {<<sections[k].id, sections[k].title>> : k \in DOMAIN sections}

\* Indices of the sections with this id; the dict builders of the code keep
\* the last one, the search loops stop at the first.
IndicesOf(sections, section_id) == {k \in DOMAIN sections : sections[k].id = section_id}

\* {s.get("id"): s for s in sections}: a later section with the same id wins
ById(sections) ==
    [i \in IdsOf(sections) |-> sections[Max(IndicesOf(sections, i))]]

(***************************************************************************)
(* The ORM session.  chat_history is a nullable JSON column without        *)
(* mutation tracking (models.py): assigning the attribute marks it         *)
(* modified, appending to the loaded list in place does not.  commit()     *)
(* writes a modified attribute, refresh() reloads the row.                 *)
(***************************************************************************)
NullHistory == [null |-> TRUE, msgs |-> <<>>]
History(msgs) == [null |-> FALSE, msgs |-> msgs]

\* if document.chat_history is None: document.chat_history = []
_safe_get_document_by_id(stored) ==
    [mem |-> stored.msgs, modified |-> stored.null, db |-> stored]

\* db.commit(); db.refresh(document)
CommitRefresh(sess) ==
    LET written == IF sess.modified THEN History(sess.mem) ELSE sess.db
    IN  [mem |-> written.msgs, modified |-> FALSE, db |-> written]

\* The message dict: "suggestedContent" is set only for a non-empty map and
\* "requiresConfirmation" only when true, so {} and FALSE stand for a missing key.
ChatMessage(role, text, suggested_content, requires_confirmation) ==
    [role |-> role, text |-> text,
     suggestedContent |-> suggested_content,
     requiresConfirmation |-> requires_confirmation]

\* a save that writes the new message alone
SaveReplacing(sess, message) ==
    CommitRefresh([sess EXCEPT !.mem = <<message>>, !.modified = TRUE])

\* document.chat_history.append(message); db.commit(); db.refresh(document)
_save_chat_message(sess, message) ==
    CommitRefresh([sess EXCEPT !.mem = Append(sess.mem, message)])

(***************************************************************************)
(* State.                                                                  *)
(***************************************************************************)
VARIABLES
    content_json,        \* Document.content_json["sections"], as stored
    chat_history,        \* Document.chat_history, as stored (NULL or a list)
    headings_confirmed,  \* Document.headings_confirmed
    funding_program_id,  \* Document.funding_program_id, 0 for NULL (legacy)
    op,                  \* the handler that ran last
    result,              \* its HTTP status and the preview in its response
    b_in,                \* _generate_batch_content under test: its arguments
    b_out                \* ... and what it returned or raised

docvars == <<content_json, chat_history, headings_confirmed, funding_program_id>>
batchvars == <<b_in, b_out>>
vars == <<content_json, chat_history, headings_confirmed, funding_program_id,
          op, result, b_in, b_out>>

\* What a handler answers: the status of an HTTPException, or 200 with the
\* is_question, suggested_content and requires_confirmation of a ChatResponse.
Response(status, is_question, suggested_content, requires_confirmation) ==
    [status |-> status, is_question |-> is_question,
     suggested_content |-> suggested_content,
     requires_confirmation |-> requires_confirmation]

(***************************************************************************)
(* update_document: the heading lock.                                      *)
(***************************************************************************)
\* The request bodies of PUT /documents/{id}: content_json["sections"].
InputSection == [id : Ids, title : Titles, content : {"x"}, type : {"text"}]
UpdateBodies == SeqsUpTo(InputSection, MaxSections)

TitleChanged(old_sections, new_sections) ==
    \E i \in IdsOf(new_sections) \cap IdsOf(old_sections) :
        ById(old_sections)[i].title # ById(new_sections)[i].title

added_ids(old_sections, new_sections) == IdsOf(new_sections) \ IdsOf(old_sections)

HeadingLockRejects(confirmed, old_sections, new_sections) ==
    /\ confirmed
    /\ \/ TitleChanged(old_sections, new_sections)
       \/ added_ids(old_sections, new_sections) # {}

update_document_with(body) ==
    LET sess == _safe_get_document_by_id(chat_history)
    IN  /\ op' = "update_document"
        /\ IF HeadingLockRejects(headings_confirmed, content_json, body)
           THEN /\ result' = Response("400", FALSE, {}, FALSE)
                /\ UNCHANGED <<content_json, chat_history>>
           ELSE /\ result' = Response("200", FALSE, {}, FALSE)
                /\ content_json' = body
                /\ chat_history' = CommitRefresh(sess).db
        /\ UNCHANGED <<headings_confirmed, funding_program_id, batchvars>>

update_document == \E body \in UpdateBodies : update_document_with(body)

(***************************************************************************)
(* confirm_headings.                                                       *)
(***************************************************************************)
\* a confirmation that flips the flag instead of setting it
toggle_headings ==
    /\ op' = "confirm_headings"
    /\ result' = Response("200", FALSE, {}, FALSE)
    /\ headings_confirmed' = ~headings_confirmed
    /\ chat_history' = CommitRefresh(_safe_get_document_by_id(chat_history)).db
    /\ UNCHANGED <<content_json, funding_program_id, batchvars>>

confirm_headings ==
    LET sess == _safe_get_document_by_id(chat_history)
    IN  /\ op' = "confirm_headings"
        /\ result' = Response("200", FALSE, {}, FALSE)
        /\ headings_confirmed' = TRUE
        /\ chat_history' = CommitRefresh(sess).db
        /\ UNCHANGED <<content_json, funding_program_id, batchvars>>

(***************************************************************************)
(* confirm_chat_edit.                                                      *)
(***************************************************************************)
\* section_id of the request: a stored id, or an id written with a comma
ConfirmIds == Ids \cup {"4,1"}

\* section["content"] = confirmed_content on the first section with the id,
\* then the rebuild: {"id", "title", "content"} for every section, the content
\* of a section with the requested id forced to confirmed_content
RebuildSections(sections, section_id, confirmed_content) ==
    [k \in DOMAIN sections |->
        [id |-> sections[k].id,
         title |-> sections[k].title,
         content |-> IF sections[k].id = section_id
                     THEN confirmed_content ELSE sections[k].content,
         type |-> NoType]]

\* The row as db.refresh() reads it after the commit.  saved_content is what the
\* row then holds for the section: confirmed_content, unless another writer's
\* commit has landed in between (no per-document serialisation).
RowAfterRefresh(updated_sections, section_id, saved_content) ==
    LET first == Min(IndicesOf(updated_sections, section_id))
    IN  [updated_sections EXCEPT ![first].content = saved_content]

\* The post-write verification: the first stored section with the id
\* a confirmation that does not read the saved row back
NoReadBack(stored_sections, section_id, confirmed_content) == TRUE

SavedContentMatches(stored_sections, section_id, confirmed_content) ==
    stored_sections[Min(IndicesOf(stored_sections, section_id))].content
        = confirmed_content

confirm_chat_edit_with(section_id, confirmed_content, saved_content) ==
    LET sess == _safe_get_document_by_id(chat_history)
        sections == content_json
        updated_sections == RebuildSections(sections, section_id, confirmed_content)
        stored == RowAfterRefresh(updated_sections, section_id, saved_content)
    IN  /\ op' = "confirm_chat_edit"
        /\ IF sections = <<>>
           THEN /\ result' = Response("400", FALSE, {}, FALSE)
                /\ UNCHANGED <<content_json, chat_history>>
           ELSE IF IndicesOf(sections, section_id) = {}
           THEN /\ result' = Response("404", FALSE, {}, FALSE)
                /\ UNCHANGED <<content_json, chat_history>>
           ELSE /\ content_json' = stored
                /\ chat_history' = CommitRefresh(sess).db
                /\ result' = IF SavedContentMatches(stored, section_id, confirmed_content)
                             THEN Response("200", FALSE, {}, FALSE)
                             ELSE Response("500", FALSE, {}, FALSE)
        /\ UNCHANGED <<headings_confirmed, funding_program_id, batchvars>>

confirm_chat_edit ==
    \E section_id \in ConfirmIds, confirmed_content \in Contents :
        \* the row read back holds what was written, or another writer's text
        \E saved_content \in {confirmed_content, "x"} :
            confirm_chat_edit_with(section_id, confirmed_content, saved_content)

(***************************************************************************)
(* get_document: lookup by funding program, with the one-time upgrade of a *)
(* legacy document (funding_program_id NULL).                              *)
(***************************************************************************)
Templates ==
    { <<[id |-> "1", title |-> "Intro", content |-> "", type |-> NoType],
        [id |-> "4.1", title |-> "Team", content |-> "x", type |-> "milestone_table"]>>,
      <<[id |-> "1", title |-> "Team", content |-> "", type |-> "text"]>> }

\* get_template_for_document raised: the upgrade goes on without a template
NoTemplate == <<[id |-> "<raised>", title |-> "", content |-> "", type |-> NoType]>>

\* a document with fewer sections than this gets the template's structure
NeedsTemplateBelow == 20

\* the template's sections, the content of a section kept when its id exists
PopulateFromTemplate(existing_sections, template_sections) ==
    [k \in DOMAIN template_sections |->
        IF template_sections[k].id \in IdsOf(existing_sections)
        THEN [template_sections[k] EXCEPT
                !.content = ById(existing_sections)[template_sections[k].id].content]
        ELSE template_sections[k]]

\* get_template_for_document(legacy_doc, ...): its first statement reads
\* document.template_id, and the Document model maps no such attribute, so
\* the call raises for every document
get_template_for_document(document_sections) == NoTemplate

get_document_with(funding_program_req) ==
    LET upgrade == funding_program_req # 0 /\ funding_program_id = 0
        existing_sections == content_json
        needs_template == Len(existing_sections) < NeedsTemplateBelow
        template == get_template_for_document(existing_sections)
    IN  /\ funding_program_req = funding_program_id \/ upgrade
        /\ op' = "get_document"
        /\ result' = Response("200", FALSE, {}, FALSE)
        /\ IF upgrade
           THEN /\ funding_program_id' = funding_program_req
                \* except Exception as template_error: the upgrade goes on
                /\ content_json' =
                      IF needs_template /\ template # NoTemplate
                      THEN PopulateFromTemplate(existing_sections, template)
                      ELSE content_json
           ELSE UNCHANGED <<funding_program_id, content_json>>
        \* if document.chat_history is None: document.chat_history = []; commit
        /\ chat_history' = History(chat_history.msgs)
        /\ UNCHANGED <<headings_confirmed, batchvars>>

get_document ==
    \E funding_program_req \in {0, 1} : get_document_with(funding_program_req)

(***************************************************************************)
(* _generate_batch_content: one JSON-mode call per attempt, validated.     *)
(***************************************************************************)
\* A JSON value of the response object: a string, or anything else
JStr(text) == [str |-> TRUE, v |-> text]
JOther == [str |-> FALSE, v |-> ""]

\* What one call of the text-generation service gives: a provider error or
\* timeout, text that is no JSON, JSON that is no object, or a JSON object
\* (body: key -> value).
ProviderError == [kind |-> "error", body |-> <<>>]
BadJson == [kind |-> "badjson", body |-> <<>>]
NonObject == [kind |-> "nonobject", body |-> <<>>]
JsonObject(body) == [kind |-> "object", body |-> body]

\* section_ids of the batch: milestone tables are skipped
BatchSectionIds(batch_sections) ==
    {batch_sections[k].id :
        k \in {j \in DOMAIN batch_sections : batch_sections[j].type # "milestone_table"}}

\* a validation that only wants a JSON object
AnyObjectAccepted(response, section_ids) == response.kind = "object"

\* json.loads succeeded, no expected id is missing, every value is a string;
\* anything else raises inside the try
ResponseAccepted(response, section_ids) ==
    /\ response.kind = "object"
    /\ \A sid \in section_ids : sid \in DOMAIN response.body
    /\ \A key \in DOMAIN response.body : response.body[key].str

RECURSIVE BatchAttempt(_, _, _, _)
\* for attempt in range(max_retries + 1)
BatchAttempt(section_ids, responses, attempt, max_retries) ==
    IF ResponseAccepted(responses[attempt + 1], section_ids)
    THEN [ok |-> TRUE, content |-> responses[attempt + 1].body, calls |-> attempt + 1]
    ELSE IF attempt < max_retries
         THEN BatchAttempt(section_ids, responses, attempt + 1, max_retries)
         ELSE [ok |-> FALSE, content |-> <<>>, calls |-> attempt + 1]

_generate_batch_content(batch_sections, responses, max_retries) ==
    BatchAttempt(BatchSectionIds(batch_sections), responses, 0, max_retries)

(***************************************************************************)
(* generate_content: batches of text sections, persisted batch by batch.   *)
(***************************************************************************)
DefaultBatchSize == 4
GenerateMaxRetries == 2

RECURSIVE SplitLoop(_, _, _, _, _)
\* for section in sections: ... ; the remaining sections are the final batch
SplitLoop(sections, i, current_batch, batches, batch_size) ==
    IF i > Len(sections)
    THEN IF current_batch # <<>> THEN Append(batches, current_batch) ELSE batches
    ELSE LET grown == Append(current_batch, sections[i])
         IN  IF Len(grown) >= batch_size
             THEN SplitLoop(sections, i + 1, <<>>, Append(batches, grown),
                            IF batch_size = 5 THEN 3
                            ELSE IF batch_size = 3 THEN 5 ELSE 4)
             ELSE SplitLoop(sections, i + 1, grown, batches, batch_size)

\* a split that always closes with one more batch
SplitWithTail(sections, batch_size) ==
    Append(SplitLoop(sections, 1, <<>>, <<>>, batch_size), <<>>)

_split_sections_into_batches(sections, batch_size) ==
    SplitLoop(sections, 1, <<>>, <<>>, batch_size)

\* a filter that lets every section through
AllSections(sections) == sections

\* [s for s in sections if s.get("type") != "milestone_table"]
TextSections(sections) ==
    SelectSeq(sections, LAMBDA s : s.type # "milestone_table")

\* for section_id, content in batch_content.items():
\*     if section_id in section_content_map: section_content_map[section_id] = content
MergeBatchContent(section_content_map, batch_content) ==
    [i \in DOMAIN section_content_map |->
        IF i \in DOMAIN batch_content THEN batch_content[i].v
        ELSE section_content_map[i]]

\* updated_sections: id, title, type (default "text") and the mapped content;
\* a milestone table keeps its own content
UpdatedSections(sections, section_content_map) ==
    [k \in DOMAIN sections |->
        LET section_type == IF sections[k].type = NoType THEN "text"
                            ELSE sections[k].type
        IN  [id |-> sections[k].id,
             title |-> sections[k].title,
             type |-> section_type,
             content |-> IF section_type = "milestone_table"
                         THEN sections[k].content
                         ELSE section_content_map[sections[k].id]]]

\* a loop that counts every batch as successful
GenerateLoopCountingAll(sections, batches, b, section_content_map, stored, successful, responses) ==
    [stored |-> stored, successful_batches |-> Len(batches)]

RECURSIVE GenerateLoop(_, _, _, _, _, _, _)
\* for batch_idx, batch in enumerate(batches): a failed batch is skipped, a
\* successful one is merged and committed.  Gives the stored sections and
\* successful_batches.
GenerateLoop(sections, batches, b, section_content_map, stored, successful, responses) ==
    IF b > Len(batches)
    THEN [stored |-> stored, successful_batches |-> successful]
    ELSE LET out == _generate_batch_content(batches[b], responses[b], GenerateMaxRetries)
             merged == MergeBatchContent(section_content_map, out.content)
         IN  IF out.ok
             THEN GenerateLoop(sections, batches, b + 1, merged,
                               UpdatedSections(sections, merged), successful + 1, responses)
             ELSE GenerateLoop(sections, batches, b + 1, section_content_map,
                               stored, successful, responses)

\* The answers of the service to one batch: attempts that fail to parse, then a
\* provider error, an object with every id, or an object with no key.
GenerateResponses ==
    { ProviderError, JsonObject([i \in Ids |-> JStr("y")]), JsonObject(<<>>) }
GenerateResponseSeqs ==
    { [k \in 1..(GenerateMaxRetries + 1) |-> IF k < n THEN BadJson ELSE r] :
        n \in 1..(GenerateMaxRetries + 1), r \in GenerateResponses }

generate_content_with(processing_done, responses) ==
    LET sess == _safe_get_document_by_id(chat_history)
        sections == content_json
        batches == _split_sections_into_batches(TextSections(sections), DefaultBatchSize)
        section_content_map == [i \in IdsOf(sections) |-> ById(sections)[i].content]
        run == GenerateLoop(sections, batches, 1, section_content_map,
                            content_json, 0, responses)
    IN  /\ op' = "generate_content"
        /\ IF ~processing_done
           THEN /\ result' = Response("409", FALSE, {}, FALSE)
                /\ UNCHANGED <<content_json, chat_history>>
           ELSE IF sections = <<>>
           THEN /\ result' = Response("400", FALSE, {}, FALSE)
                /\ UNCHANGED <<content_json, chat_history>>
           ELSE IF run.successful_batches = 0
           THEN /\ result' = Response("500", FALSE, {}, FALSE)
                /\ UNCHANGED <<content_json, chat_history>>
           ELSE /\ result' = Response("200", FALSE, {}, FALSE)
                /\ content_json' = run.stored
                /\ chat_history' = CommitRefresh(sess).db
        /\ UNCHANGED <<headings_confirmed, funding_program_id, batchvars>>

NumBatches(sections) ==
    Len(_split_sections_into_batches(TextSections(sections), DefaultBatchSize))

generate_content ==
    \E processing_done \in BOOLEAN :
        \E responses \in [1..NumBatches(content_json) -> GenerateResponseSeqs] :
            \* the service is called only once preprocessing is done
            /\ processing_done \/ \A b \in DOMAIN responses :
                                     responses[b] = [k \in 1..(GenerateMaxRetries + 1) |-> ProviderError]
            /\ generate_content_with(processing_done, responses)

(***************************************************************************)
(* chat_with_document: question answering, or proposals for section edits. *)
(***************************************************************************)
\* A message is its words in order; "?" is a question mark that ends it.
Messages ==
    { <<"improve", "1", "?">>, <<"Tell", "me", "more">>, <<"tell", "us">> }

\* message.lower()
Lower(word) ==
    CASE word = "Tell" -> "tell"
      [] OTHER -> word

question_words ==
    {"what", "how", "why", "when", "where", "who", "which", "can", "could",
     "should", "would", "is", "are", "was", "were", "do", "does", "did", "will",
     "tell me", "explain", "describe"}

\* the words of the model that begin with the given letters
BeginsWith(word, letters) ==
    \/ word = letters
    \/ letters = "me" /\ word \in {"me", "more"}
    \/ letters = "explain" /\ word \in {"explains"}
    \/ letters = "describe" /\ word \in {"describes"}

_is_question(message) ==
    LET first_word == IF message = <<>> THEN "" ELSE Lower(message[1])
    IN  \/ message # <<>> /\ message[Len(message)] = "?"
        \/ first_word \in question_words
        \* ^what\s+ ... ^would\s+ : the first word, followed by another one
        \/ /\ Len(message) >= 2
           /\ first_word \in {"what", "how", "why", "when", "where", "who",
                              "which", "should", "would"}
        \* ^can\s+you, ^could\s+you, ^tell\s+me
        \/ /\ Len(message) >= 2
           /\ \/ first_word \in {"can", "could"} /\ BeginsWith(Lower(message[2]), "you")
              \/ first_word = "tell" /\ BeginsWith(Lower(message[2]), "me")
        \* ^explain, ^describe
        \/ BeginsWith(first_word, "explain")
        \/ BeginsWith(first_word, "describe")

\* What the section editor gives for one change: it raised, or the new text
EditOutcomes == { [ok |-> FALSE, text |-> ""], [ok |-> TRUE, text |-> "y"] }

\* The changes a parser can return: both parsers keep only ids that are in
\* valid_section_ids.
ChangeLists(valid_section_ids, longest) ==
    SeqsUpTo([section_id : valid_section_ids], longest)

\* a fallback that always takes the default change
DefaultChangeOnly(enhanced, strict, sections) == <<[section_id |-> sections[1].id]>>

\* changes = enhanced parser's, else the stricter parser's, else one default
\* change on the first valid section id
ResolveChanges(enhanced, strict, sections) ==
    IF enhanced # <<>> THEN enhanced
    ELSE IF strict # <<>> THEN strict
    ELSE <<[section_id |-> sections[1].id]>>

\* the changes whose section exists and whose edit call returned
Succeeded(changes, outcomes, sections) ==
    {i \in DOMAIN changes :
        changes[i].section_id \in IdsOf(sections) /\ outcomes[i].ok}

\* suggested_content_map[section_id] = new_content: a later change wins
suggested_content_map(changes, outcomes, sections) ==
    LET done == Succeeded(changes, outcomes, sections)
    IN  { <<changes[i].section_id, outcomes[i].text>> :
            i \in {j \in done : \A l \in done :
                                   changes[l].section_id = changes[j].section_id => l <= j} }

\* a preview with every suggested text written into its section
SectionsWithProposal(sections, proposal) ==
    [k \in DOMAIN sections |->
        IF \E pair \in proposal : pair[1] = sections[k].id
        THEN [sections[k] EXCEPT
                 !.content = (CHOOSE pair \in proposal : pair[1] = sections[k].id)[2]]
        ELSE sections[k]]

\* "Store suggested content (DO NOT update section yet - wait for
\* confirmation)": the sections are read, never assigned
SectionsAfterPreview(sections, proposal) == sections

chat_with_document_with(message, enhanced, strict, answer_ok, outcomes) ==
    LET sess == _safe_get_document_by_id(chat_history)
        sections == content_json
        user_message == ChatMessage("user", message, {}, FALSE)
        changes == ResolveChanges(enhanced, strict, sections)
        proposal == suggested_content_map(changes, outcomes, sections)
        asked == _save_chat_message(sess, user_message)
    IN  /\ Len(chat_history.msgs) + 2 <= MaxHistory
        /\ op' = "chat_with_document"
        /\ IF sections = <<>>
           THEN /\ result' = Response("400", FALSE, {}, FALSE)
                /\ UNCHANGED <<content_json, chat_history>>
           ELSE IF _is_question(message)
           THEN IF ~answer_ok
                THEN /\ result' = Response("500", FALSE, {}, FALSE)
                     /\ UNCHANGED <<content_json, chat_history>>
                ELSE /\ result' = Response("200", TRUE, {}, FALSE)
                     /\ chat_history' =
                          _save_chat_message(asked,
                              ChatMessage("assistant", <<"answer">>, {}, FALSE)).db
                     /\ UNCHANGED content_json
           ELSE IF Succeeded(changes, outcomes, sections) # {}
           THEN /\ result' = Response("200", FALSE, proposal, TRUE)
                /\ chat_history' =
                     _save_chat_message(asked,
                         ChatMessage("assistant", <<"preview">>, proposal, TRUE)).db
                /\ content_json' = SectionsAfterPreview(sections, proposal)
           ELSE /\ result' = Response("200", FALSE, {}, FALSE)
                /\ chat_history' =
                     _save_chat_message(asked,
                         ChatMessage("assistant", <<"failure">>, {}, FALSE)).db
                /\ UNCHANGED content_json
        /\ UNCHANGED <<headings_confirmed, funding_program_id, batchvars>>

NoOutcomes == <<>>

chat_with_document ==
    \E message \in Messages :
        \/ /\ _is_question(message) \/ content_json = <<>>
           /\ \E answer_ok \in BOOLEAN :
                chat_with_document_with(message, <<>>, <<>>, answer_ok, NoOutcomes)
        \/ /\ ~_is_question(message) /\ content_json # <<>>
           /\ \E enhanced \in ChangeLists(IdsOf(content_json), MaxChanges) :
                \E strict \in ChangeLists(IdsOf(content_json), 1) :
                   \* the stricter parser runs only when the enhanced one found
                   \* nothing; one change tells its result from the default
                   /\ enhanced = <<>> \/ strict = <<>>
                   /\ \E outcomes \in [1..Len(ResolveChanges(enhanced, strict, content_json))
                                          -> EditOutcomes] :
                        chat_with_document_with(message, enhanced, strict, TRUE, outcomes)

(***************************************************************************)
(* Initial states: a document row as get_document created it (no sections, *)
(* or the sections of a template), or a row that predates the chat_history *)
(* column (NULL).                                                          *)
(***************************************************************************)
Idle == [state |-> "idle"]

Init ==
    /\ content_json \in {<<>>} \cup Templates
    /\ chat_history \in {NullHistory, History(<<>>)}
    /\ headings_confirmed = FALSE
    /\ funding_program_id \in {0, 1}
    /\ op = "init"
    /\ result = Response("200", FALSE, {}, FALSE)
    /\ b_in = Idle
    /\ b_out = Idle

(***************************************************************************)
(* _generate_batch_content on its own: every batch of text sections (the   *)
(* caller passes no milestone table), every sequence of answers.           *)
(***************************************************************************)
BatchSections == [id : Ids, title : {"Intro"}, content : {""}, type : {"text"}]
Batches == SeqsUpTo(BatchSections, MaxSections) \ {<<>>}

JsonValues == {JStr("y"), JOther}
JsonObjects == UNION {[keys -> JsonValues] : keys \in SUBSET Ids}
BatchResponses ==
    {ProviderError, BadJson, NonObject} \cup {JsonObject(body) : body \in JsonObjects}

BatchInputs ==
    UNION { [state : {"ready"}, batch_sections : Batches,
             responses : [1..(max_retries + 1) -> BatchResponses],
             max_retries : {max_retries}] : max_retries \in 0..MaxRetries }

InitBatch ==
    /\ content_json = <<>>
    /\ chat_history = NullHistory
    /\ headings_confirmed = FALSE
    /\ funding_program_id = 0
    /\ op = "init"
    /\ result = Response("200", FALSE, {}, FALSE)
    /\ b_in \in BatchInputs
    /\ b_out = Idle

call_generate_batch_content ==
    /\ b_in.state = "ready"
    /\ b_out = Idle
    /\ b_out' = [state |-> "returned",
                 out |-> _generate_batch_content(b_in.batch_sections, b_in.responses,
                                                 b_in.max_retries)]
    /\ UNCHANGED <<docvars, op, result, b_in>>

NextBatch == call_generate_batch_content

SpecBatch == InitBatch /\ [][NextBatch]_vars

(***************************************************************************)
(* generate_content on documents long enough for several batches.          *)
(***************************************************************************)
MaxGenSections == 9

\* the section ids of a long document, in document order
GenIdSeq == <<"1", "2", "3", "4", "5", "6", "7", "8", "9", "10", "11", "12">>
GenIds == {GenIdSeq[k] : k \in 1..(MaxGenSections + 1)}

\* A stored document of n sections: no milestone table, one (at position
\* m), or only milestone tables (m = n + 1); every text section empty or filled.
GenDoc(n, m, filled) ==
    [k \in 1..n |->
        [id |-> GenIdSeq[k], title |-> "Intro",
         type |-> IF k = m \/ m = n + 1 THEN "milestone_table" ELSE "text",
         content |-> IF filled THEN "x" ELSE ""]]

GenDocs ==
    {GenDoc(n, m, filled) : n \in 0..MaxGenSections, m \in 0..(MaxGenSections + 1),
                            filled \in BOOLEAN}

\* What the service gives for one batch: a provider error, an object with
\* the ids of the batch, an object with every id of the document (ids of
\* other batches and of milestone tables included), or an object with no key.
AnswerKinds == {"error", "own", "every", "none"}

BatchAnswer(kind, batch) ==
    CASE kind = "error" -> ProviderError
      [] kind = "own" -> JsonObject([i \in BatchSectionIds(batch) |-> JStr("z")])
      [] kind = "every" -> JsonObject([i \in GenIds |-> JStr("y")])
      [] OTHER -> JsonObject(<<>>)

\* the batches of the stored document
GenBatches == _split_sections_into_batches(TextSections(content_json), DefaultBatchSize)

\* every attempt of a batch gets the same kind of answer
GenResponsesFor(kinds) ==
    [b \in DOMAIN kinds |->
        [k \in 1..(GenerateMaxRetries + 1) |-> BatchAnswer(kinds[b], GenBatches[b])]]

generate_long_with(kinds) == generate_content_with(TRUE, GenResponsesFor(kinds))

generate_long ==
    \E kinds \in [1..Len(GenBatches) -> AnswerKinds] : generate_long_with(kinds)

InitGen ==
    /\ content_json \in GenDocs
    /\ chat_history = History(<<>>)
    /\ headings_confirmed = FALSE
    /\ funding_program_id = 1
    /\ op = "init"
    /\ result = Response("200", FALSE, {}, FALSE)
    /\ b_in = Idle
    /\ b_out = Idle

NextGen == generate_long

SpecGen == InitGen /\ [][NextGen]_vars

(***************************************************************************)
(* _split_sections_into_batches on its own: every list length, every       *)
(* starting batch_size.                                                    *)
(***************************************************************************)
MaxSplitLen == 13
MaxBatchSize == 5

\* a list of n sections that differ from one another
SplitInput(n) == [k \in 1..n |-> [id |-> k, type |-> "text"]]

SplitInputs ==
    [state : {"ready"}, sections : {SplitInput(n) : n \in 0..MaxSplitLen},
     batch_size : 1..MaxBatchSize]

InitSplit ==
    /\ content_json = <<>>
    /\ chat_history = NullHistory
    /\ headings_confirmed = FALSE
    /\ funding_program_id = 0
    /\ op = "init"
    /\ result = Response("200", FALSE, {}, FALSE)
    /\ b_in \in SplitInputs
    /\ b_out = Idle

call_split_sections_into_batches ==
    /\ b_in.state = "ready"
    /\ b_out = Idle
    /\ b_out' = [state |-> "returned",
                 out |-> _split_sections_into_batches(b_in.sections, b_in.batch_size)]
    /\ UNCHANGED <<docvars, op, result, b_in>>

NextSplit == call_split_sections_into_batches

SpecSplit == InitSplit /\ [][NextSplit]_vars

(***************************************************************************)
(* _normalize_section_id.  A string is the sequence of its characters.     *)
(***************************************************************************)
MaxIdLen == 5

Chars == {"1", "2", ",", ".", " "}
WhiteSpace == {" "}
Strings == SeqsUpTo(Chars, MaxIdLen)

\* section_id.replace(',', '.')
ReplaceCommas(str) == [k \in DOMAIN str |-> IF str[k] = "," THEN "." ELSE str[k]]

RECURSIVE SkipSpace(_, _)
\* the first position from i on that holds no whitespace (Len + 1 if none)
SkipSpace(str, i) ==
    IF i <= Len(str) /\ str[i] \in WhiteSpace THEN SkipSpace(str, i + 1) ELSE i

RECURSIVE SubDots(_, _)
\* re.sub(r'\s*\.\s*', '.', normalized), matching from position i on
SubDots(str, i) ==
    IF i > Len(str) THEN <<>>
    ELSE LET dot == SkipSpace(str, i)
         IN  IF dot <= Len(str) /\ str[dot] = "."
             THEN <<".">> \o SubDots(str, SkipSpace(str, dot + 1))
             ELSE <<str[i]>> \o SubDots(str, i + 1)

CollapseDots(str) == SubDots(str, 1)

RECURSIVE RStripDots(_)
\* normalized.rstrip('.')
RStripDots(str) ==
    IF str # <<>> /\ str[Len(str)] = "." THEN RStripDots(SubSeq(str, 1, Len(str) - 1))
    ELSE str

RECURSIVE RStripSpace(_)
RStripSpace(str) ==
    IF str # <<>> /\ str[Len(str)] \in WhiteSpace
    THEN RStripSpace(SubSeq(str, 1, Len(str) - 1))
    ELSE str

\* .strip()
Strip(str) ==
    LET right == RStripSpace(str)
    IN  SubSeq(right, SkipSpace(right, 1), Len(right))

\* a step that leaves the spaces around dots
KeepSpaces(str) == str

\* re.sub(r'\s*\.\s*', '.', normalized)
RemoveSpacesAroundDots(str) == CollapseDots(str)

_normalize_section_id(section_id) ==
    IF section_id = <<>> THEN section_id
    ELSE Strip(RStripDots(RemoveSpacesAroundDots(ReplaceCommas(section_id))))

NormInputs == [state : {"ready"}, section_id : Strings]

InitNorm ==
    /\ content_json = <<>>
    /\ chat_history = NullHistory
    /\ headings_confirmed = FALSE
    /\ funding_program_id = 0
    /\ op = "init"
    /\ result = Response("200", FALSE, {}, FALSE)
    /\ b_in \in NormInputs
    /\ b_out = Idle

call_normalize_section_id ==
    /\ b_in.state = "ready"
    /\ b_out = Idle
    /\ b_out' = [state |-> "returned", out |-> _normalize_section_id(b_in.section_id)]
    /\ UNCHANGED <<docvars, op, result, b_in>>

NextNorm == call_normalize_section_id

SpecNorm == InitNorm /\ [][NextNorm]_vars

\* ---- _parse_section_changes_enhanced: the id-based strategies ----
\* Messages are sequences of characters.  They are built from "<id>: <instruction>"
\* segments, so they hold no "section"/"abschnitt", no action verb and no line
\* break: pattern1 and pattern4 find nothing in them, and with sections = None
\* the title strategy is skipped.
MaxSegments == 2

Digits == {"0", "1", "2", "3", "4", "5", "6", "7", "8", "9"}
\* [\d.,]
IdClass == Digits \cup {".", ","}
\* [-:\s]
SepClass == {"-", ":"} \cup WhiteSpace
\* [.,;]
Punctuation == {".", ",", ";"}

ParseIds == {<<"2", ".", "1">>, <<"2", ".", "2">>, <<"3">>}
ParseValidIds == <<<<"2", ".", "1">>, <<"2", ".", "2">>, <<"3">>>>
ParseInstructions ==
    {<<"a", "b", "c">>, <<"a", "b">>, <<"3", " ", "a", "b">>, <<"a", "b", " ", "c", "d">>}
ParseSeparators == {<<".", " ">>, <<" ">>}

RECURSIVE JoinSegments(_, _, _)
\* "<id>: <instruction>" segments joined by sep
JoinSegments(ids, instrs, sep) ==
    IF ids = <<>> THEN <<>>
    ELSE Head(ids) \o <<":", " ">> \o Head(instrs)
         \o (IF Len(ids) = 1 THEN <<>> ELSE sep \o JoinSegments(Tail(ids), Tail(instrs), sep))

RECURSIVE SkipIdChars(_, _)
\* the first position from i on that holds no character of [\d.,]
SkipIdChars(str, i) ==
    IF i <= Len(str) /\ str[i] \in IdClass THEN SkipIdChars(str, i + 1) ELSE i

\* (?<![.,\d]) at position i
NotAfterIdChar(str, i) == i = 1 \/ str[i - 1] \notin IdClass

SectionMatch(id, start, end, type) == [id |-> id, start |-> start, end |-> end, type |-> type]

RECURSIVE MarkerMatches(_, _, _, _)
\* finditer of (?<![.,\d])([\d.,]+)\s*<mark> from position i on; pattern3 also
\* takes the whitespace after the mark.  start is the first position of the
\* match, end the first position after it.
MarkerMatches(message, mark, type, i) ==
    IF i > Len(message) THEN <<>>
    ELSE IF message[i] \in IdClass /\ NotAfterIdChar(message, i)
         THEN LET run == SkipIdChars(message, i)
                  at  == SkipSpace(message, run)
              IN  IF at <= Len(message) /\ message[at] = mark
                  THEN LET end == IF type = "dash" THEN SkipSpace(message, at + 1) ELSE at + 1
                       IN  <<SectionMatch(_normalize_section_id(SubSeq(message, i, run - 1)),
                                          i, end, type)>>
                           \o MarkerMatches(message, mark, type, end)
                  ELSE MarkerMatches(message, mark, type, i + 1)
         ELSE MarkerMatches(message, mark, type, i + 1)

\* next_chars = message[pos:pos+20].strip() is not empty and not only [\d.\s,]
MeaningfulTextAt(message, pos) ==
    LET next_chars == Strip(SubSeq(message, pos, Min({pos + 19, Len(message)})))
    IN  /\ pos <= Len(message)
        /\ next_chars # <<>>
        /\ \E k \in DOMAIN next_chars : next_chars[k] \notin IdClass \cup WhiteSpace

RECURSIVE StandaloneMatches(_, _)
\* finditer of (?:^|[\n\.])\s*([\d.,]+)\s+(?![\d.,]) from position i on; the
\* `meaningful` field is the test of lines 1734-1738
StandaloneMatches(message, i) ==
    IF i > Len(message) THEN <<>>
    ELSE LET from == IF message[i] = "." THEN i + 1 ELSE i
             id   == SkipSpace(message, from)
             run  == SkipIdChars(message, id)
             ws   == SkipSpace(message, run)
             end  == IF ws <= Len(message) /\ message[ws] \in IdClass THEN ws - 1 ELSE ws
         IN  IF (i = 1 \/ message[i] = ".") /\ run > id /\ end > run
             THEN <<[SectionMatch(_normalize_section_id(SubSeq(message, id, run - 1)),
                                  i, end, "standalone")
                     EXCEPT !.type = IF MeaningfulTextAt(message, end)
                                     THEN "standalone" ELSE "number"]>>
                  \o StandaloneMatches(message, end)
             ELSE StandaloneMatches(message, i + 1)

Distance(a, b) == IF a < b THEN b - a ELSE a - b

RECURSIVE AppendMatches(_, _, _, _)
\* the loop over one pattern's matches: keep a match whose id is valid and that
\* has no earlier match of the same id nearer than `near` positions
AppendMatches(section_matches, found, valid_section_ids, near) ==
    IF found = <<>> THEN section_matches
    ELSE LET m == Head(found)
             keep == /\ \E v \in DOMAIN valid_section_ids : valid_section_ids[v] = m.id
                     /\ m.type # "number"
                     /\ ~ \E k \in DOMAIN section_matches :
                            /\ section_matches[k].id = m.id
                            /\ Distance(section_matches[k].start, m.start) < near
         IN  AppendMatches(IF keep THEN Append(section_matches, m) ELSE section_matches,
                           Tail(found), valid_section_ids, near)

\* pattern2, pattern3 and pattern5 in the order of the code
section_matches(message, valid_section_ids) ==
    LET colon == AppendMatches(<<>>, MarkerMatches(message, ":", "colon", 1),
                               valid_section_ids, 1)
        dash  == AppendMatches(colon, MarkerMatches(message, "-", "dash", 1),
                               valid_section_ids, 5)
    IN  AppendMatches(dash, StandaloneMatches(message, 1), valid_section_ids, 5)

RECURSIVE unique_matches(_)
\* lines 1749-1757: keep the first match of every id
unique_matches(matches) ==
    IF matches = <<>> THEN <<>>
    ELSE LET n == Len(matches)
             before == SubSeq(matches, 1, n - 1)
         IN  IF \E j \in 1..(n - 1) : matches[j].id = matches[n].id
             THEN unique_matches(before)
             ELSE Append(unique_matches(before), matches[n])

RECURSIVE InsertByStart(_, _)
InsertByStart(sorted, m) ==
    IF sorted = <<>> THEN <<m>>
    ELSE IF sorted[Len(sorted)].start <= m.start THEN Append(sorted, m)
    ELSE Append(InsertByStart(SubSeq(sorted, 1, Len(sorted) - 1), m), sorted[Len(sorted)])

RECURSIVE SortByStart(_)
\* unique_matches.sort(key=lambda x: x['start']), a stable sort
SortByStart(matches) ==
    IF matches = <<>> THEN <<>>
    ELSE InsertByStart(SortByStart(SubSeq(matches, 1, Len(matches) - 1)), matches[Len(matches)])

RECURSIVE LStripSet(_, _)
LStripSet(str, set) ==
    IF str # <<>> /\ Head(str) \in set THEN LStripSet(Tail(str), set) ELSE str

RECURSIVE RStripSet(_, _)
RStripSet(str, set) ==
    IF str # <<>> /\ str[Len(str)] \in set THEN RStripSet(SubSeq(str, 1, Len(str) - 1), set)
    ELSE str

\* lines 1775-1786: strip, leading separators, trailing separators, trailing punctuation
CleanInstruction(text) ==
    Strip(RStripSet(RStripSet(LStripSet(Strip(text), SepClass), SepClass), Punctuation))

\* re.match(r'^[\d.,]+\s*[-:\s]', instruction_text)
LooksLikeSectionReference(text) ==
    LET run == SkipIdChars(text, 1)
    IN  run > 1 /\ run <= Len(text) /\ text[run] \in SepClass

\* lines 1789-1793
MeaningfulInstruction(text) ==
    text # <<>> /\ Len(text) > 2 /\ ~LooksLikeSectionReference(text)

RECURSIVE ExtractChanges(_, _, _)
\* the loop of lines 1764-1802 from match i on
ExtractChanges(message, matches, i) ==
    IF i > Len(matches) THEN <<>>
    ELSE LET instruction_end == IF i + 1 <= Len(matches) THEN matches[i + 1].start
                                ELSE Len(message) + 1
             instruction_text ==
                 CleanInstruction(SubSeq(message, matches[i].end, instruction_end - 1))
         IN  (IF MeaningfulInstruction(instruction_text)
              THEN <<[section_id |-> matches[i].id, instruction |-> instruction_text]>>
              ELSE <<>>)
             \o ExtractChanges(message, matches, i + 1)

\* ---- the title strategy (sections given) ----
LowerCase == <<"a", "b", "c", "d", "e", "f", "g", "h", "i", "j", "k", "l", "m",
               "n", "o", "p", "q", "r", "s", "t", "u", "v", "w", "x", "y", "z">>
UpperCase == <<"A", "B", "C", "D", "E", "F", "G", "H", "I", "J", "K", "L", "M",
               "N", "O", "P", "Q", "R", "S", "T", "U", "V", "W", "X", "Y", "Z">>
\* [A-Za-z] (the messages hold no umlaut)
Letters == {LowerCase[k] : k \in DOMAIN LowerCase} \cup {UpperCase[k] : k \in DOMAIN UpperCase}
\* [\d.]
DotDigits == Digits \cup {"."}

\* str.lower()
LowerChars(str) ==
    [k \in DOMAIN str |->
        IF \E u \in DOMAIN UpperCase : UpperCase[u] = str[k]
        THEN LowerCase[CHOOSE u \in DOMAIN UpperCase : UpperCase[u] = str[k]]
        ELSE str[k]]

\* x in y for strings
Contains(y, x) ==
    \E at \in 0..(Len(y) - Len(x)) : SubSeq(y, at + 1, at + Len(x)) = x

\* the length of the common block of a from i and b from j, inside [i, ahi) x [j, bhi)
RECURSIVE BlockLength(_, _, _, _, _, _)
BlockLength(a, i, ahi, b, j, bhi) ==
    IF i < ahi /\ j < bhi /\ a[i] = b[j] THEN 1 + BlockLength(a, i + 1, ahi, b, j + 1, bhi)
    ELSE 0

\* SequenceMatcher.find_longest_match: the longest block, the earliest in a and
\* then in b among the longest
LongestBlock(size, alo, blo) ==
    LET best == Max({0} \cup {size[c] : c \in DOMAIN size})
        firsts == {c \in DOMAIN size : size[c] = best}
        i == Min({c[1] : c \in firsts})
        j == Min({c[2] : c \in {d \in firsts : d[1] = i}})
    IN  IF best = 0 THEN [size |-> 0, i |-> alo, j |-> blo]
        ELSE [size |-> best, i |-> i, j |-> j]

FindLongestMatch(a, alo, ahi, b, blo, bhi) ==
    LongestBlock([c \in (alo..(ahi - 1)) \X (blo..(bhi - 1)) |->
                     BlockLength(a, c[1], ahi, b, c[2], bhi)], alo, blo)

\* the number of matching characters: get_matching_blocks, summed
RECURSIVE MatchingCharacters(_, _, _, _, _, _)
\* the block m, and the matching characters on its left and on its right
MatchingAround(a, alo, ahi, b, blo, bhi, m) ==
    IF m.size = 0 THEN 0
    ELSE MatchingCharacters(a, alo, m.i, b, blo, m.j) + m.size
         + MatchingCharacters(a, m.i + m.size, ahi, b, m.j + m.size, bhi)

MatchingCharacters(a, alo, ahi, b, blo, bhi) ==
    IF alo >= ahi \/ blo >= bhi THEN 0
    ELSE MatchingAround(a, alo, ahi, b, blo, bhi,
                        FindLongestMatch(a, alo, ahi, b, blo, bhi))

\* SequenceMatcher(None, a, b).ratio() = 2 * matches / (len(a) + len(b)), kept
\* as the fraction <<numerator, denominator>>
Ratio(a, b) ==
    IF Len(a) + Len(b) = 0 THEN <<1, 1>>
    ELSE <<2 * MatchingCharacters(a, 1, Len(a) + 1, b, 1, Len(b) + 1), Len(a) + Len(b)>>

\* threshold = 0.8 as the fraction 4/5
TitleThreshold == <<4, 5>>
FractionLeq(x, y) == x[1] * y[2] <= y[1] * x[2]

\* the order of the characters of section ids in a string comparison
CharOrder == <<" ", ",", ".", "0", "1", "2", "3", "4", "5", "6", "7", "8", "9">>
CharRank(c) == CHOOSE k \in DOMAIN CharOrder : CharOrder[k] = c
RECURSIVE StringLess(_, _)
StringLess(x, y) ==
    IF y = <<>> THEN FALSE
    ELSE IF x = <<>> THEN TRUE
    ELSE IF Head(x) = Head(y) THEN StringLess(Tail(x), Tail(y))
    ELSE CharRank(Head(x)) < CharRank(Head(y))

RECURSIVE SkipDotDigits(_, _)
SkipDotDigits(str, i) ==
    IF i <= Len(str) /\ str[i] \in DotDigits THEN SkipDotDigits(str, i + 1) ELSE i

\* re.sub(r'^[\d.]+\.\s*', '', section_title).strip()
CleanTitle(section_title) ==
    LET run == SkipDotDigits(section_title, 1)
        dots == {k \in 1..(run - 1) : section_title[k] = "."}
    IN  IF dots = {} THEN Strip(section_title)
        ELSE Strip(SubSeq(section_title, SkipSpace(section_title, Max(dots) + 1),
                          Len(section_title)))

NoSectionId == <<>>

\* lines 1546-1574: the sections that match, each with its similarity; a
\* section whose title equals the input is returned at once (kind "exact")
TitleMatch(user_input_normalized, section, normalized_title, similarity) ==
    IF section.title = <<>> \/ section.id = <<>> THEN "skip"
    ELSE IF normalized_title = user_input_normalized THEN "exact"
    ELSE IF \/ Contains(normalized_title, user_input_normalized)
            \/ Contains(user_input_normalized, normalized_title) THEN "match"
    ELSE IF FractionLeq(TitleThreshold, similarity) THEN "match"
    ELSE "none"

\* lines 1576-1584: sort(key=(-similarity, section_id)), then the first entry;
\* sort is stable, so equal keys keep the order of the sections
BestTitleMatch(sections, kind, score) ==
    LET exact == {k \in DOMAIN sections : kind[k] = "exact"}
        title_matches == {k \in DOMAIN sections : kind[k] = "match"}
        before(j, k) ==
            \/ ~FractionLeq(score[j], score[k])
            \/ /\ FractionLeq(score[k], score[j])
               /\ \/ StringLess(sections[j].id, sections[k].id)
                  \/ sections[j].id = sections[k].id /\ j < k
        best == CHOOSE k \in title_matches : \A j \in title_matches \ {k} : before(k, j)
    IN  \* the loop returns at the first section whose title equals the input
        IF exact # {} THEN sections[Min(exact)].id
        ELSE IF title_matches # {} THEN sections[best].id
        ELSE NoSectionId

\* lines 1546-1574 for every section: its normalized title, its similarity to
\* the input and the kind of match
ScoredSections(user_input_normalized, sections, normalized_title) ==
    LET score == [k \in DOMAIN sections |-> Ratio(user_input_normalized, normalized_title[k])]
    IN  BestTitleMatch(sections,
                       [k \in DOMAIN sections |->
                           TitleMatch(user_input_normalized, sections[k],
                                      normalized_title[k], score[k])],
                       score)

_find_section_by_title(user_input, sections) ==
    IF user_input = <<>> \/ sections = <<>> THEN NoSectionId
    ELSE ScoredSections(Strip(LowerChars(user_input)), sections,
                        [k \in DOMAIN sections |-> LowerChars(CleanTitle(sections[k].title))])

RECURSIVE SkipTitleChars(_, _)
\* the first position from i on that holds no character of [A-Za-z\s]
SkipTitleChars(str, i) ==
    IF i <= Len(str) /\ str[i] \in Letters \cup WhiteSpace THEN SkipTitleChars(str, i + 1)
    ELSE i

\* {2,40}: the longest candidate title after its first letter
TitleMaxTail == 40

\* [A-Za-z][A-Za-z\s]{2,40}?\s*: matches at position i
TitleColonAt(message, i) ==
    LET colon == SkipTitleChars(message, i)
        text == RStripSpace(SubSeq(message, i, colon - 1))
    IN  /\ i <= Len(message)
        /\ message[i] \in Letters
        /\ colon <= Len(message)
        /\ message[colon] = ":"
        /\ colon - i >= 3
        /\ Len(text) - 1 <= TitleMaxTail

\* [\d.]+\s*: matches at position i
IdColonAt(message, i) ==
    LET at == SkipSpace(message, SkipDotDigits(message, i))
    IN  /\ i <= Len(message)
        /\ message[i] \in DotDigits
        /\ at <= Len(message)
        /\ message[at] = ":"

\* the lookahead of title_patterns[0] at position e (the messages hold no \n)
TitleLookahead(message, e) ==
    e = Len(message) + 1 \/ IdColonAt(message, e) \/ TitleColonAt(message, e)

RECURSIVE FirstLookahead(_, _)
FirstLookahead(message, e) ==
    IF TitleLookahead(message, e) THEN e ELSE FirstLookahead(message, e + 1)

RECURSIVE TitleColonMatches(_, _)
\* title_patterns[0].finditer(message) from position i on: start and end of
\* each match with group(1) and group(2)
TitleColonMatches(message, i) ==
    IF i > Len(message) THEN <<>>
    ELSE LET colon == SkipTitleChars(message, i)
             text  == SkipSpace(message, colon + 1)
             \* (.+?) takes one character at least; \s* gives one back for it
             \* when only whitespace follows the colon
             from  == IF text > Len(message) THEN Len(message) ELSE text
             end   == FirstLookahead(message, from + 1)
             \* group(1): three characters at least, then up to the last one
             \* that is no whitespace
             last  == Max({i + 2} \cup {k \in i..(colon - 1) : message[k] \notin WhiteSpace})
         IN  IF TitleColonAt(message, i) /\ colon < Len(message)
             THEN <<[start |-> i, end |-> end,
                     title |-> SubSeq(message, i, last),
                     instruction |-> SubSeq(message, from, end - 1)]>>
                  \o TitleColonMatches(message, end)
             ELSE TitleColonMatches(message, i + 1)

\* lines 1620-1637: the first match whose title names a valid section and
\* whose instruction has more than two characters
AcceptedTitle(message, valid_section_ids, found, section_id) ==
    LET accepted == {k \in DOMAIN found :
                        /\ section_id[k] # NoSectionId
                        /\ \E v \in DOMAIN valid_section_ids :
                              valid_section_ids[v] = section_id[k]
                        /\ Len(Strip(found[k].instruction)) > 2}
        first == Min(accepted)
    IN  IF accepted = {} THEN [changes |-> <<>>, message |-> message]
        ELSE [changes |-> <<[section_id |-> section_id[first],
                             instruction |-> Strip(found[first].instruction)]>>,
              message |-> SubSeq(message, 1, found[first].start - 1)
                          \o SubSeq(message, found[first].end, Len(message))]

\* line 1625: the section each matched title names
TitledSections(message, valid_section_ids, sections, found) ==
    AcceptedTitle(message, valid_section_ids, found,
                  [k \in DOMAIN found |->
                      _find_section_by_title(Strip(found[k].title), sections)])

TitleChange(message, valid_section_ids, sections) ==
    TitledSections(message, valid_section_ids, sections, TitleColonMatches(message, 1))

\* sections = None
NoSections == <<>>

\* The messages hold no dash and never begin with a word followed by
\* whitespace, so title_patterns[1] and the standalone title pattern find
\* nothing in them.
\* lines 1662-1802: the id patterns on what the title strategy left of the
\* message, after the change the title strategy made
IdChanges(titled, valid_section_ids) ==
    titled.changes
    \o ExtractChanges(titled.message,
                      SortByStart(unique_matches(section_matches(titled.message,
                                                                 valid_section_ids))),
                      1)

\* lines 1612-1660: the title strategy runs only when sections are given
AfterTitleStrategy(stripped, valid_section_ids, sections) ==
    IdChanges(IF sections = NoSections THEN [changes |-> <<>>, message |-> stripped]
              ELSE TitleChange(stripped, valid_section_ids, sections),
              valid_section_ids)

_parse_section_changes_enhanced(user_message, valid_section_ids, sections) ==
    AfterTitleStrategy(Strip(user_message), valid_section_ids, sections)

ParseIdSeqs ==
    {ids \in UNION {[1..n -> ParseIds] : n \in 2..MaxSegments} :
        \A j, k \in DOMAIN ids : j # k => ids[j] # ids[k]}

ParseInputs ==
    UNION {{[state |-> "ready", ids |-> ids, instrs |-> instrs, sep |-> sep,
             message |-> JoinSegments(ids, instrs, sep)] :
               ids \in {i \in ParseIdSeqs : Len(i) = n},
               instrs \in [1..n -> ParseInstructions],
               sep \in ParseSeparators} : n \in 2..MaxSegments}

InitParse ==
    /\ content_json = <<>>
    /\ chat_history = NullHistory
    /\ headings_confirmed = FALSE
    /\ funding_program_id = 0
    /\ op = "init"
    /\ result = Response("200", FALSE, {}, FALSE)
    /\ b_in \in ParseInputs
    /\ b_out = Idle

call_parse_section_changes_enhanced ==
    /\ b_in.state = "ready"
    /\ b_out = Idle
    /\ b_out' = [state |-> "returned",
                 out |-> _parse_section_changes_enhanced(b_in.message, ParseValidIds,
                                                        NoSections)]
    /\ UNCHANGED <<docvars, op, result, b_in>>

NextParse == call_parse_section_changes_enhanced

SpecParse == InitParse /\ [][NextParse]_vars

\* ---- _parse_section_changes_enhanced with the sections of the document ----
ParseSections ==
    <<[id |-> <<"2", ".", "1">>, title |-> <<"T", "e", "a", "m">>],
      [id |-> <<"2", ".", "2">>, title |-> <<"2", ".", "2", ".", " ", "P", "l", "a", "n">>],
      [id |-> <<"3">>, title |-> <<"T", "e", "a", "m", "s">>]>>

\* words before a colon: titles, a word near a title, a word that is no title
ParseWords ==
    {<<"T", "e", "a", "m">>, <<"p", "l", "a", "n">>, <<"T", "e", "a", "m", "s", "x">>,
     <<"a", "b", "c">>}

TitledInputs ==
    UNION {{[state |-> "ready", heads |-> heads, instrs |-> instrs, sep |-> sep,
             message |-> JoinSegments(heads, instrs, sep)] :
               heads \in [1..n -> ParseIds \cup ParseWords],
               instrs \in [1..n -> ParseInstructions],
               sep \in ParseSeparators} : n \in 1..MaxSegments}

InitTitled ==
    /\ content_json = <<>>
    /\ chat_history = NullHistory
    /\ headings_confirmed = FALSE
    /\ funding_program_id = 0
    /\ op = "init"
    /\ result = Response("200", FALSE, {}, FALSE)
    /\ b_in \in TitledInputs
    /\ b_out = Idle

call_parse_with_sections ==
    /\ b_in.state = "ready"
    /\ b_out = Idle
    /\ b_out' = [state |-> "returned",
                 out |-> _parse_section_changes_enhanced(b_in.message, ParseValidIds,
                                                        ParseSections)]
    /\ UNCHANGED <<docvars, op, result, b_in>>

NextTitled == call_parse_with_sections

SpecTitled == InitTitled /\ [][NextTitled]_vars

\* ---- resolve_template (template_resolver.py) ----
MaxTemplates == 2

TemplateIds == 1..MaxTemplates
NoUuid == 0
\* template references: two spellings of the first id, the other ids, a string
\* that is no UUID, and the empty string
TemplateRefs == {"u1", "{u1}", "u2", "u3", "x", ""}
Emails == {"a@x", "b@x"}
NoEmail == ""
\* db is None: a session without any table
NoDb == <<>>
\* .first() found no row
NoRow == [user_email |-> "", template_structure |-> [kind |-> "none"]]

\* uuid.UUID(template_ref); NoUuid where it raises ValueError
UuidOf(template_ref) ==
    CASE template_ref \in {"u1", "{u1}"} -> 1
      [] template_ref = "u2" -> 2
      [] template_ref = "u3" -> 3
      [] OTHER -> NoUuid

\* an entry of "sections": a dict with these keys, or a value that is no dict
SectionEntry(kind, keys) == [kind |-> kind, keys |-> keys]
GoodEntry == SectionEntry("dict", {"id", "title"})
SectionsList(entries) == [kind |-> "list", entries |-> entries]
ValidStructure == [kind |-> "dict", sections |-> SectionsList(<<GoodEntry>>)]
TemplateStructures ==
    {ValidStructure,
     [kind |-> "dict", sections |-> SectionsList(<<GoodEntry, SectionEntry("dict", {"title"})>>)],
     [kind |-> "dict", sections |-> SectionsList(<<SectionEntry("dict", {"id"})>>)],
     [kind |-> "dict", sections |-> SectionsList(<<SectionEntry("str", {})>>)],
     [kind |-> "dict", sections |-> [kind |-> "str", entries |-> <<>>]],
     [kind |-> "dict"],
     [kind |-> "list"]}
UserTemplates == [user_email : Emails, template_structure : TemplateStructures]
Databases == [TemplateIds -> UserTemplates \cup {NoRow}]

Raise(type, text, ref) == [raised |-> type, message |-> <<text, ref>>]
Return(template) == [raised |-> "no", template |-> template]

TEMPLATE_REGISTRY == {"wtt_v1"}
SystemTemplateNames == {"wtt_v1", "other"}

\* a query that looks the template up by its id alone
QueryById(db, template_id, user_email) ==
    IF template_id \in DOMAIN db THEN db[template_id] ELSE NoRow

\* db.query(UserTemplate).filter(id == template_id, user_email == user_email).first()
QueryUserTemplate(db, template_id, user_email) ==
    IF /\ template_id \in DOMAIN db
       /\ db[template_id] # NoRow
       /\ db[template_id].user_email = user_email
    THEN db[template_id]
    ELSE NoRow

\* lines 75-102: the body of the try block; ValueErrors as they are raised there
ResolveUserTemplate(template_ref, db, user_email) ==
    LET template_id == UuidOf(template_ref)
        user_template == QueryUserTemplate(db, template_id, user_email)
    IN  IF template_id = NoUuid
        THEN Raise("ValueError", "badly formed hexadecimal UUID string", template_ref)
        ELSE IF user_template = NoRow
        THEN Raise("ValueError", "not found or access denied", template_ref)
        ELSE LET template_structure == user_template.template_structure
             IN  IF template_structure.kind # "dict"
                 THEN Raise("ValueError", "has invalid structure", template_ref)
                 ELSE IF "sections" \notin DOMAIN template_structure
                 THEN Raise("ValueError", "missing 'sections' key", template_ref)
                 ELSE IF template_structure.sections.kind # "list"
                 THEN Raise("ValueError", "sections must be a list", template_ref)
                 ELSE Return(template_structure)

\* lines 104-108: messages holding "not found" or "invalid" are raised again,
\* every other ValueError becomes "Invalid user template reference"
ReRaised(outcome) ==
    IF outcome.raised = "no" THEN outcome
    ELSE IF outcome.message[1] \in {"not found or access denied", "has invalid structure"}
    THEN outcome
    ELSE Raise("ValueError", "Invalid user template reference", outcome.message[2])

resolve_template(template_source, template_ref, db, user_email) ==
    LET source == IF template_source = "None" /\ template_ref # "" THEN "system"
                  ELSE template_source
    IN  IF source \notin {"system", "user"}
        THEN Raise("ValueError", "Invalid template_source", source)
        ELSE IF template_ref = ""
        THEN Raise("ValueError", "template_ref is required when template_source is set", "")
        ELSE IF source = "system"
        THEN IF template_ref \in TEMPLATE_REGISTRY THEN Return(ValidStructure)
             ELSE Raise("KeyError", "not found in registry", template_ref)
        ELSE IF db = NoDb
        THEN Raise("ValueError", "Database session required for user template resolution", "")
        ELSE IF user_email = NoEmail
        THEN Raise("ValueError", "user_email required for user template resolution", "")
        ELSE ReRaised(ResolveUserTemplate(template_ref, db, user_email))

TemplateInputs ==
    [state : {"ready"},
     template_source : {"user", "system", "None"},
     template_ref : TemplateRefs \cup SystemTemplateNames,
     db : Databases \cup {NoDb},
     user_email : Emails \cup {NoEmail}]

InitTemplate ==
    /\ content_json = <<>>
    /\ chat_history = NullHistory
    /\ headings_confirmed = FALSE
    /\ funding_program_id = 0
    /\ op = "init"
    /\ result = Response("200", FALSE, {}, FALSE)
    /\ b_in \in TemplateInputs
    /\ b_out = Idle

call_resolve_template ==
    /\ b_in.state = "ready"
    /\ b_out = Idle
    /\ b_out' = [state |-> "returned",
                 out |-> resolve_template(b_in.template_source, b_in.template_ref,
                                          b_in.db, b_in.user_email)]
    /\ UNCHANGED <<docvars, op, result, b_in>>

NextTemplate == call_resolve_template

SpecTemplate == InitTemplate /\ [][NextTemplate]_vars

\* ---- two requests on one document, step by step ----
\* Each request loads the row in its own session, works on its copy and
\* commits the whole content_json column.  b_in holds the two requests,
\* b_out whether one was loaded while the other was at work.
MaxRaceSections == 5

RaceDocs == {GenDoc(n, 0, filled) : n \in 2..MaxRaceSections, filled \in BOOLEAN}

ConfirmRequest(section_id, confirmed_content) ==
    [kind |-> "confirm", section_id |-> section_id,
     confirmed_content |-> confirmed_content,
     pc |-> "idle", sections |-> <<>>, section_content_map |-> <<>>,
     batch |-> 0, successful_batches |-> 0, status |-> "none"]

GenerateRequest ==
    [kind |-> "generate", section_id |-> "", confirmed_content |-> "",
     pc |-> "idle", sections |-> <<>>, section_content_map |-> <<>>,
     batch |-> 0, successful_batches |-> 0, status |-> "none"]

\* a confirmation for the first section, and with it a confirmation for the
\* last section or a generation
RacePairs(sections) ==
    {<<ConfirmRequest(sections[1].id, "a"), second>> :
        second \in {ConfirmRequest(sections[Len(sections)].id, "b"), GenerateRequest}}

InitRace ==
    /\ content_json \in RaceDocs
    /\ chat_history = History(<<>>)
    /\ headings_confirmed = FALSE
    /\ funding_program_id = 1
    /\ op = "init"
    /\ result = Response("200", FALSE, {}, FALSE)
    /\ \E pair \in RacePairs(content_json) : b_in = [state |-> "race", requests |-> pair]
    /\ b_out = [state |-> "race", interleaved |-> FALSE]

AtWork(request) == request.pc \notin {"idle", "done"}

\* _safe_get_document_by_id and the reading of content_json["sections"]
load_document(r) ==
    LET request == b_in.requests[r]
        sections == content_json
    IN  /\ b_in.state = "race"
        /\ request.pc = "idle"
        /\ b_in' = [b_in EXCEPT !.requests[r] =
                      [request EXCEPT
                          !.pc = "loaded",
                          !.sections = sections,
                          !.section_content_map =
                              [i \in IdsOf(sections) |-> ById(sections)[i].content],
                          !.batch = 1]]
        /\ b_out' = [b_out EXCEPT !.interleaved = @ \/ AtWork(b_in.requests[3 - r])]
        /\ UNCHANGED <<docvars, op, result>>

\* confirm_chat_edit, lines 2833-2893: the rebuild from the loaded sections
\* and the commit
confirm_commit(r) ==
    LET request == b_in.requests[r]
    IN  /\ b_in.state = "race"
        /\ request.kind = "confirm"
        /\ request.pc = "loaded"
        /\ content_json' = RebuildSections(request.sections, request.section_id,
                                           request.confirmed_content)
        /\ b_in' = [b_in EXCEPT !.requests[r].pc = "committed"]
        /\ op' = "confirm_chat_edit"
        /\ UNCHANGED <<chat_history, headings_confirmed, funding_program_id, result, b_out>>

\* confirm_chat_edit, lines 2894-2935: db.refresh and the check of the saved content
confirm_verify(r) ==
    LET request == b_in.requests[r]
    IN  /\ b_in.state = "race"
        /\ request.kind = "confirm"
        /\ request.pc = "committed"
        /\ b_in' = [b_in EXCEPT
                      !.requests[r].pc = "done",
                      !.requests[r].status =
                          IF SavedContentMatches(content_json, request.section_id,
                                                 request.confirmed_content)
                          THEN "200" ELSE "500"]
        /\ UNCHANGED <<docvars, op, result, b_out>>

\* generate_content, lines 1403-1472: one turn of the batch loop
generate_batch(r) ==
    LET request == b_in.requests[r]
        batches == _split_sections_into_batches(TextSections(request.sections),
                                                DefaultBatchSize)
    IN  /\ b_in.state = "race"
        /\ request.kind = "generate"
        /\ request.pc = "loaded"
        /\ request.batch <= Len(batches)
        /\ \E kind \in {"own", "error"} :
             LET batch == batches[request.batch]
                 out == _generate_batch_content(batch,
                            [k \in 1..(GenerateMaxRetries + 1) |-> BatchAnswer(kind, batch)],
                            GenerateMaxRetries)
                 merged == MergeBatchContent(request.section_content_map, out.content)
             IN  IF out.ok
                 THEN /\ content_json' = UpdatedSections(request.sections, merged)
                      /\ b_in' = [b_in EXCEPT
                                    !.requests[r].section_content_map = merged,
                                    !.requests[r].successful_batches = @ + 1,
                                    !.requests[r].batch = @ + 1]
                 ELSE /\ content_json' = content_json
                      /\ b_in' = [b_in EXCEPT !.requests[r].batch = @ + 1]
        /\ op' = "generate_content"
        /\ UNCHANGED <<chat_history, headings_confirmed, funding_program_id, result, b_out>>

\* generate_content, lines 1474-1488: the final status
generate_finish(r) ==
    LET request == b_in.requests[r]
        batches == _split_sections_into_batches(TextSections(request.sections),
                                                DefaultBatchSize)
    IN  /\ b_in.state = "race"
        /\ request.kind = "generate"
        /\ request.pc = "loaded"
        /\ request.batch > Len(batches)
        /\ b_in' = [b_in EXCEPT
                      !.requests[r].pc = "done",
                      !.requests[r].status =
                          IF request.successful_batches = 0 THEN "500" ELSE "200"]
        /\ UNCHANGED <<docvars, op, result, b_out>>

NextRace ==
    \E r \in 1..2 :
        \/ load_document(r)
        \/ confirm_commit(r)
        \/ confirm_verify(r)
        \/ generate_batch(r)
        \/ generate_finish(r)

SpecRace == InitRace /\ [][NextRace]_vars

Next ==
    \/ update_document
    \/ confirm_headings
    \/ confirm_chat_edit
    \/ generate_content
    \/ chat_with_document
    \/ get_document

Spec == Init /\ [][Next]_vars

(***************************************************************************)
(* Properties.                                                             *)
(***************************************************************************)
IsPrefix(s, t) == Len(s) <= Len(t) /\ SubSeq(t, 1, Len(s)) = s

\* C1: for a document whose headings are confirmed, no operation changes the
\* set of section ids or the title of any id; only content may differ.
C1_HeadingLock ==
    [][headings_confirmed => IdTitles(content_json') = IdTitles(content_json)]_vars

\* the body gives an existing section id a title the stored section does not have
AsksRetitle(old_sections, body) ==
    \E k \in DOMAIN body : \E j \in DOMAIN old_sections :
        /\ body[k].id = old_sections[j].id
        /\ body[k].title # old_sections[j].title

\* the body has a section id that is not stored
AsksNewId(old_sections, body) == ~(IdsOf(body) \subseteq IdsOf(old_sections))

\* the body has the stored ids, each with its stored title
ContentOnly(old_sections, body) == IdTitles(body) = IdTitles(old_sections)

\* C2: update_document on a document with confirmed headings fails and stores
\* nothing when the body retitles an existing id or brings a new id, and
\* succeeds and stores the body when only content differs.
C2_LockedUpdate ==
    [][(headings_confirmed /\ op' = "update_document") =>
        \A body \in UpdateBodies :
            update_document_with(body) =>
                /\ (AsksRetitle(content_json, body) \/ AsksNewId(content_json, body)) =>
                       (result'.status # "200" /\ UNCHANGED docvars)
                /\ ContentOnly(content_json, body) =>
                       (result'.status = "200" /\ content_json' = body)]_vars

\* C3: once headings_confirmed is true, no operation sets it back to false.
C3_ConfirmOneWay == [][headings_confirmed => headings_confirmed']_vars

\* a confirmed document that went on to be updated and regenerated
C3_Witness ==
    /\ headings_confirmed
    /\ op \in {"update_document", "generate_content", "confirm_headings"}
    /\ result.status = "200"

\* C4: a chat edit turn never changes the stored content of any section; the
\* candidate text is only in the preview.
C4_ProposeBeforeApply ==
    [][(op' = "chat_with_document" /\ ~result'.is_question) =>
        content_json' = content_json]_vars

\* a preview was given for a section whose stored content is still empty
C4_Witness ==
    /\ op = "chat_with_document"
    /\ result.status = "200"
    /\ result.requires_confirmation
    /\ \E pair \in result.suggested_content : \E k \in DOMAIN content_json :
          /\ content_json[k].id = pair[1]
          /\ content_json[k].content = ""
          /\ pair[2] # ""

C6_ConfirmAppendsMessage ==
    [][(op' = "confirm_chat_edit" /\ result'.status = "200") =>
        /\ Len(chat_history'.msgs) = Len(chat_history.msgs) + 1
        /\ IsPrefix(chat_history.msgs, chat_history'.msgs)
        /\ chat_history'.msgs[Len(chat_history'.msgs)].role = "assistant"
        /\ ~chat_history'.msgs[Len(chat_history'.msgs)].requiresConfirmation]_vars

\* C7: a chat edit turn appends the user message and then one assistant
\* message: with the suggestedContent of the edits that succeeded and
\* requiresConfirmation, or a failure message without either.
C7_EditTurnHistory ==
    [][(op' = "chat_with_document" /\ result'.status = "200" /\ ~result'.is_question) =>
        LET before == Len(chat_history.msgs)
            after == chat_history'.msgs
        IN  /\ Len(after) = before + 2
            /\ IsPrefix(chat_history.msgs, after)
            /\ after[before + 1].role = "user"
            /\ after[before + 2].role = "assistant"
            /\ after[before + 2].suggestedContent = result'.suggested_content
            /\ after[before + 2].requiresConfirmation = (result'.suggested_content # {})]_vars

\* C8: a question turn appends the user message and then the answer to
\* chat_history and leaves content_json unchanged.
C8_QuestionPath ==
    [][(op' = "chat_with_document" /\ result'.status = "200" /\ result'.is_question) =>
        LET before == Len(chat_history.msgs)
            after == chat_history'.msgs
        IN  /\ content_json' = content_json
            /\ Len(after) = before + 2
            /\ IsPrefix(chat_history.msgs, after)
            /\ after[before + 1].role = "user"
            /\ _is_question(after[before + 1].text)
            /\ after[before + 2] = ChatMessage("assistant", <<"answer">>, {}, FALSE)]_vars

\* C9: the stored chat_history before an operation is a prefix of the stored
\* chat_history after it, and a stored list never becomes NULL again.
C9_AppendOnly ==
    [][/\ IsPrefix(chat_history.msgs, chat_history'.msgs)
       /\ ~chat_history.null => ~chat_history'.null]_vars

\* a stored message is still there after a later confirmation or generation
C9_Witness ==
    /\ Len(chat_history.msgs) > 0
    /\ op \in {"confirm_chat_edit", "generate_content", "update_document"}
    /\ result.status = "200"

\* the answer can be returned: it is JSON, an object, has every id of the
\* batch, and has only strings
GoodAnswer(response, batch_sections) ==
    /\ response.kind = "object"
    /\ IdsOf(batch_sections) \subseteq DOMAIN response.body
    /\ \A key \in DOMAIN response.body : response.body[key].str

\* C10: _generate_batch_content returns only the body of an answer that is a
\* JSON object with every id of the batch and only string values; every other
\* answer is followed by another call, up to max_retries + 1 calls, and the
\* last failure raises.
C10_BatchAllOrNothing ==
    b_out.state = "returned" =>
        LET out == b_out.out
            tries == b_in.max_retries + 1
        IN  /\ out.calls \in 1..tries
            /\ \A k \in 1..(out.calls - 1) :
                   ~GoodAnswer(b_in.responses[k], b_in.batch_sections)
            /\ out.ok => /\ GoodAnswer(b_in.responses[out.calls], b_in.batch_sections)
                         /\ out.content = b_in.responses[out.calls].body
            /\ ~out.ok => /\ out.calls = tries
                          /\ ~GoodAnswer(b_in.responses[tries], b_in.batch_sections)

\* the call returned the third answer after two rejected ones
C10_Witness ==
    /\ b_out.state = "returned"
    /\ b_out.out.ok
    /\ b_out.out.calls = 3
    /\ b_in.responses[1].kind = "object"
    /\ b_in.responses[2].kind = "badjson"


\* the text an answer of this kind gives a section of its batch
AnswerText(kind) == IF kind = "own" THEN "z" ELSE "y"

\* the positions of the stored sections that belong to batch b
PositionsOfBatch(b) ==
    {k \in DOMAIN content_json :
        /\ content_json[k].type # "milestone_table"
        /\ content_json[k].id \in IdsOf(GenBatches[b])}

\* C11: in generate_content a failed batch leaves its sections with the
\* content they had, and the content of every successful batch, before or
\* after the failed one, is what is stored.
C11_BatchIsolation ==
    [][(op' = "generate_content") =>
        \A kinds \in [1..Len(GenBatches) -> AnswerKinds] :
            generate_long_with(kinds) =>
                \A b \in DOMAIN kinds : \A k \in PositionsOfBatch(b) :
                    content_json'[k].content =
                        IF GoodAnswer(BatchAnswer(kinds[b], GenBatches[b]), GenBatches[b])
                        THEN AnswerText(kinds[b])
                        ELSE content_json[k].content]_vars

\* C12: generate_content succeeds exactly when at least one batch succeeded;
\* with no successful batch, or no batch at all, it fails.
C12_SuccessIffOneBatch ==
    [][(op' = "generate_content") =>
        \A kinds \in [1..Len(GenBatches) -> AnswerKinds] :
            generate_long_with(kinds) =>
                (result'.status = "200" <=>
                    \E b \in DOMAIN kinds :
                        GoodAnswer(BatchAnswer(kinds[b], GenBatches[b]), GenBatches[b]))]_vars

\* generation succeeded although a batch failed: a text section was not written
C12_Witness ==
    /\ op = "generate_content"
    /\ result.status = "200"
    /\ \E j, k \in DOMAIN content_json :
          /\ content_json[j].type = "text" /\ content_json[j].content = "z"
          /\ content_json[k].type = "text" /\ content_json[k].content \in {"", "x"}

\* C13: generate_content puts no milestone_table section in a batch and
\* leaves every milestone_table section as it was, whatever the answers hold.
C13_MilestoneUntouched ==
    [][(op' = "generate_content") =>
        /\ \A b \in DOMAIN GenBatches : \A j \in DOMAIN GenBatches[b] :
               GenBatches[b][j].type # "milestone_table"
        /\ Len(content_json') = Len(content_json)
        /\ \A k \in DOMAIN content_json :
               content_json[k].type = "milestone_table" =>
                   content_json'[k] = content_json[k]]_vars

\* an answer with the milestone table's id was merged, and the table is as before
C13_Witness ==
    /\ op = "generate_content"
    /\ result.status = "200"
    /\ \E j, k \in DOMAIN content_json :
          /\ content_json[j].type = "milestone_table" /\ content_json[j].content = "x"
          /\ content_json[k].type = "text" /\ content_json[k].content = "y"


RECURSIVE Flatten(_)
\* the batches joined in order
Flatten(batches) ==
    IF batches = <<>> THEN <<>> ELSE Head(batches) \o Flatten(Tail(batches))

\* C14: _split_sections_into_batches gives no empty batch, the batches joined
\* in order are the input list, and an empty list gives no batch.
C14_SplitPartitions ==
    b_out.state = "returned" =>
        /\ \A b \in DOMAIN b_out.out : b_out.out[b] # <<>>
        /\ Flatten(b_out.out) = b_in.sections
        /\ b_in.sections = <<>> => b_out.out = <<>>

\* a list split into three full batches and a shorter last one
C14_Witness ==
    /\ b_out.state = "returned"
    /\ Len(b_in.sections) = 13
    /\ b_in.batch_size = 4
    /\ Len(b_out.out) = 4
    /\ Len(b_out.out[4]) = 1

\* the size the k-th full batch is said to have for the default size 4
OscillatingSize(k) == IF k = 1 THEN 4 ELSE IF k % 2 = 0 THEN 5 ELSE 3

\* C15: with the default size 4 the first full batch has 4 sections and the
\* following full batches alternate between 5 and 3; every batch but the last
\* has between 3 and 5 sections.
C15_SplitOscillates ==
    (b_out.state = "returned" /\ b_in.batch_size = 4) =>
        \A b \in 1..(Len(b_out.out) - 1) :
            /\ Len(b_out.out[b]) = OscillatingSize(b)
            /\ Len(b_out.out[b]) \in 3..5


\* C16: _normalize_section_id is idempotent and defined for every string;
\* "1,1" gives "1.1", "2.1." gives "2.1", "1 , 1" gives "1.1", "" gives "".
C16_NormalizeIdempotent ==
    b_out.state = "returned" =>
        /\ _normalize_section_id(b_out.out) = b_out.out
        /\ b_out.out \in Strings
        /\ b_in.section_id = <<"1", ",", "1">> => b_out.out = <<"1", ".", "1">>
        /\ b_in.section_id = <<"2", ".", "1", ".">> => b_out.out = <<"2", ".", "1">>
        /\ b_in.section_id = <<"1", " ", ",", " ", "1">> => b_out.out = <<"1", ".", "1">>
        /\ b_in.section_id = <<>> => b_out.out = <<>>

\* "1 , 1" was normalized to "1.1"
C16_Witness ==
    /\ b_out.state = "returned"
    /\ b_in.section_id = <<"1", " ", ",", " ", "1">>
    /\ b_out.out = <<"1", ".", "1">>

\* C17: for a message made of several "<id>: <instruction>" segments with
\* distinct valid ids (every instruction three characters or longer),
\* _parse_section_changes_enhanced returns one change per id, in message order,
\* and each instruction is the segment's own text.
C17_OneChangePerSegment ==
    (b_out.state = "returned" /\ \A k \in DOMAIN b_in.instrs : Len(b_in.instrs[k]) > 2) =>
        b_out.out = [k \in DOMAIN b_in.ids |->
                        [section_id |-> b_in.ids[k], instruction |-> b_in.instrs[k]]]

\* the template named by the call exists and belongs to another user
OwnedByAnother(input) ==
    /\ input.template_source = "user"
    /\ input.db # NoDb
    /\ input.user_email # NoEmail
    /\ UuidOf(input.template_ref) \in TemplateIds
    /\ input.db[UuidOf(input.template_ref)] # NoRow
    /\ input.db[UuidOf(input.template_ref)].user_email # input.user_email

\* C18: resolve_template with source "user" gives the same failure (type and
\* message) when the template exists but belongs to another user as it gives
\* for the same call on a database that holds no template with that id.
C18_NoExistenceLeak ==
    (b_out.state = "returned" /\ OwnedByAnother(b_in)) =>
        /\ b_out.out.raised = "ValueError"
        /\ b_out.out =
              resolve_template("user", b_in.template_ref,
                               [b_in.db EXCEPT ![UuidOf(b_in.template_ref)] = NoRow],
                               b_in.user_email)

C18_Witness ==
    /\ b_out.state = "returned"
    /\ OwnedByAnother(b_in)
    /\ b_in.db[UuidOf(b_in.template_ref)].template_structure = ValidStructure
    /\ b_out.out = Raise("ValueError", "not found or access denied", b_in.template_ref)

\* C19: in a chat edit turn the changes sent to the section editor are the
\* enhanced parser's when it returned any, otherwise the stricter parser's when
\* it returned any, and the default change on the first section only when both
\* returned nothing.
C19_ParserFallback ==
    [][(op' = "chat_with_document" /\ content_json # <<>>) =>
        \A message \in {m \in Messages : ~_is_question(m)} :
        \A enhanced \in ChangeLists(IdsOf(content_json), MaxChanges) :
        \A strict \in ChangeLists(IdsOf(content_json), 1) :
            LET sent == IF enhanced # <<>> THEN enhanced
                        ELSE IF strict # <<>> THEN strict
                        ELSE <<[section_id |-> content_json[1].id]>>
                edited == [i \in DOMAIN sent |-> [ok |-> TRUE, text |-> "y"]]
            IN  chat_with_document_with(message, enhanced, strict, TRUE, edited) =>
                    {pair[1] : pair \in result'.suggested_content}
                        = {sent[i].section_id : i \in DOMAIN sent}]_vars

\* a preview for a section that is not the first one: the change came from a parser
C19_Witness ==
    /\ op = "chat_with_document"
    /\ result.requires_confirmation
    /\ content_json # <<>>
    /\ \E pair \in result.suggested_content : pair[1] # content_json[1].id

\* C20: when a chat message is no question and neither parser finds a change
\* in it, chat_with_document calls no section edit and proposes no content for
\* any section.
C20_AmbiguityAsks ==
    [][(op' = "chat_with_document" /\ content_json # <<>>) =>
        \A message \in {m \in Messages : ~_is_question(m)} :
        \A outcomes \in [1..1 -> EditOutcomes] :
            chat_with_document_with(message, <<>>, <<>>, TRUE, outcomes) =>
                /\ result'.suggested_content = {}
                /\ ~result'.requires_confirmation]_vars

\* the characters of a section id of the request
IdCharsOf(section_id) ==
    CASE section_id = "1" -> <<"1">>
      [] section_id = "4.1" -> <<"4", ".", "1">>
      [] section_id = "4,1" -> <<"4", ",", "1">>

\* the current sections whose id is the normalized form of section_id
NormalizedMatches(sections, section_id) ==
    {k \in DOMAIN sections :
        IdCharsOf(sections[k].id) = _normalize_section_id(IdCharsOf(section_id))}

\* C21: confirm_chat_edit with a section_id whose normalized form is the id of
\* a current section updates that section; when no current section matches it
\* fails with 404 and changes neither content_json nor chat_history.
C21_ConfirmByNormalizedId ==
    [][(op' = "confirm_chat_edit" /\ content_json # <<>>) =>
        \A section_id \in ConfirmIds : \A confirmed_content \in Contents :
            confirm_chat_edit_with(section_id, confirmed_content, confirmed_content) =>
                IF NormalizedMatches(content_json, section_id) # {}
                THEN /\ result'.status = "200"
                     /\ \E k \in NormalizedMatches(content_json, section_id) :
                           content_json'[k].content = confirmed_content
                ELSE /\ result'.status = "404"
                     /\ content_json' = content_json
                     /\ chat_history' = chat_history]_vars

\* C22: chat_with_document never puts the id of a section typed
\* milestone_table into suggested_content.
C22_MilestoneNotEdited ==
    [][op' = "chat_with_document" =>
        \A pair \in result'.suggested_content :
            ~ \E k \in DOMAIN content_json :
                 /\ content_json[k].id = pair[1]
                 /\ content_json[k].type = "milestone_table"]_vars

\* C23: the change list returned by _parse_section_changes_enhanced has at
\* most one change per section id, and only ids of valid_section_ids.
C23_OneChangePerId ==
    b_out.state = "returned" =>
        /\ \A j, k \in DOMAIN b_out.out :
              b_out.out[j].section_id = b_out.out[k].section_id => j = k
        /\ \A k \in DOMAIN b_out.out :
              \E v \in DOMAIN ParseValidIds : ParseValidIds[v] = b_out.out[k].section_id

\* C24: resolve_template returns a user template only if it is a dict with a
\* "sections" list in which every entry is a dict containing "id" and "title".
C24_UserTemplateValidated ==
    (b_out.state = "returned" /\ b_in.template_source = "user"
        /\ b_out.out.raised = "no") =>
        LET template == b_out.out.template
        IN  /\ template.kind = "dict"
            /\ "sections" \in DOMAIN template
            /\ template.sections.kind = "list"
            /\ \A k \in DOMAIN template.sections.entries :
                  /\ template.sections.entries[k].kind = "dict"
                  /\ {"id", "title"} \subseteq template.sections.entries[k].keys

\* chat_history holds an assistant message that asks for confirmation and
\* whose suggested content contains the section
PendingFor(history, section_id) ==
    \E m \in DOMAIN history.msgs :
        /\ history.msgs[m].role = "assistant"
        /\ history.msgs[m].requiresConfirmation
        /\ \E pair \in history.msgs[m].suggestedContent : pair[1] = section_id

\* C25: confirm_chat_edit changes the content of a section only when the
\* chat_history holds a proposal for that section that awaits confirmation.
C25_ConfirmNeedsProposal ==
    [][op' = "confirm_chat_edit" =>
        \A k \in DOMAIN content_json :
            content_json'[k].content # content_json[k].content =>
                PendingFor(chat_history, content_json[k].id)]_vars

\* C26: confirm_chat_edit leaves the id, title, type and position of every
\* section as they were, and changes the content of one section id at most.
C26_ConfirmFrame ==
    [][op' = "confirm_chat_edit" =>
        /\ Len(content_json') = Len(content_json)
        /\ \A k \in DOMAIN content_json :
              /\ content_json'[k].id = content_json[k].id
              /\ content_json'[k].title = content_json[k].title
              /\ content_json'[k].type = content_json[k].type
        /\ \A j, k \in DOMAIN content_json :
              (/\ content_json'[j].content # content_json[j].content
               /\ content_json'[k].content # content_json[k].content)
                  => content_json[j].id = content_json[k].id]_vars

\* C27: in generate_content the content of a section changes only through the
\* answer of the section's own batch: a key outside the answering batch never
\* changes a section.
C27_OnlyOwnBatchWrites ==
    [][(op' = "generate_content") =>
        \A kinds \in [1..Len(GenBatches) -> AnswerKinds] :
            generate_long_with(kinds) =>
                \A b \in DOMAIN kinds : \A k \in PositionsOfBatch(b) :
                    content_json'[k].content # content_json[k].content =>
                        /\ GoodAnswer(BatchAnswer(kinds[b], GenBatches[b]), GenBatches[b])
                        /\ content_json'[k].content = AnswerText(kinds[b])]_vars

\* C28: generate_content leaves every section whose content was not empty
\* before the call with the content it had.
C28_OnlyEmptySectionsFilled ==
    [][(op' = "generate_content") =>
        \A k \in DOMAIN content_json :
            content_json[k].content # "" =>
                content_json'[k].content = content_json[k].content]_vars

\* C29: after a chat turn that returns successfully, the stored chat_history
\* holds the messages it held before and then the user message and the
\* assistant message of the turn.
C29_ChatMessagesDurable ==
    [][(op' = "chat_with_document" /\ result'.status = "200") =>
        /\ ~chat_history'.null
        /\ Len(chat_history'.msgs) = Len(chat_history.msgs) + 2
        /\ SubSeq(chat_history'.msgs, 1, Len(chat_history.msgs)) = chat_history.msgs
        /\ chat_history'.msgs[Len(chat_history.msgs) + 1].role = "user"
        /\ chat_history'.msgs[Len(chat_history.msgs) + 2].role = "assistant"]_vars

\* both requests have returned
BothDone == b_in.requests[1].pc = "done" /\ b_in.requests[2].pc = "done"

\* the stored document holds what the confirmation r wrote
ConfirmedContentStored(r) ==
    \E k \in DOMAIN content_json :
        /\ content_json[k].id = b_in.requests[r].section_id
        /\ content_json[k].content = b_in.requests[r].confirmed_content

\* C30 (second half): when the two requests ran one after the other, the
\* content of every confirmation that succeeded is in the final document.
C30_SerialKeepsBoth ==
    (b_in.state = "race" /\ BothDone /\ ~b_out.interleaved) =>
        \A r \in 1..2 :
            (b_in.requests[r].kind = "confirm" /\ b_in.requests[r].status = "200")
                => ConfirmedContentStored(r)

====
